---- MODULE Spec2Model ----
(***************************************************************************)
(* Model of the CVD simulator of src/main.py: the CVDState object, the     *)
(* DOM controls it reads and writes, and the update_simulation handler.    *)
(*                                                                         *)
(* Numbers are exact rationals [n |-> numerator, d |-> denominator > 0].   *)
(* The value [n |-> 0, d |-> 0] stands for a raised ZeroDivisionError: it  *)
(* is produced by a division whose divisor is zero and is absorbing.       *)
(* Python floats differ from these rationals by rounding error only; nan   *)
(* and inf typed into the text field are not modelled.                     *)
(*                                                                         *)
(* The page markup is not part of the sources.  A control keeps the value  *)
(* written to it (no clamping to min/max/step), a disabled control takes   *)
(* no user input, and the initial control values are arbitrary members of  *)
(* the value sets below.                                                   *)
(***************************************************************************)
EXTENDS Integers, Sequences, FiniteSets, TLC

VARIABLES
    st,      \* the fields of the CVDState instance `state`
    ctl,     \* the DOM controls: sliders, displays, text input, radio group
    plot,    \* what update_graph last wrote into plot_div
    pc,      \* position of the page script / of the solver harness
    event,   \* the trigger of the last step
    rd,      \* the state as read_ui left it in the last update (history)
    sh,      \* a second run of the last update, started from another state
    steps    \* number of user events served so far

vars == <<st, ctl, plot, pc, event, rd, sh, steps>>

----------------------------------------------------------------------------
(* Bounds of the explored input space *)

MaxEvents == 1
MaxFlowIdx == 1
MaxPressureIdx == 2
MaxTargetIdx == 1
MaxSolverIdx == 2

----------------------------------------------------------------------------
(* Exact rational arithmetic *)

Abs(x) == IF x < 0 THEN -x ELSE x

RECURSIVE GCD(_, _)
GCD(a, b) == IF b = 0 THEN a ELSE GCD(b, a % b)

ZeroDiv == [n |-> 0, d |-> 0]

Raised(x) == x.d = 0

R(n, d) ==
    IF d = 0 THEN ZeroDiv
    ELSE LET g == GCD(Abs(n), Abs(d))
             s == IF d < 0 THEN -1 ELSE 1
         IN  [n |-> s * (n \div g), d |-> s * (d \div g)]

Zero == R(0, 1)
One == R(1, 1)

RAdd(a, b) ==
    IF Raised(a) \/ Raised(b) THEN ZeroDiv
    ELSE LET g == GCD(a.d, b.d)
         IN  R(a.n * (b.d \div g) + b.n * (a.d \div g), (a.d \div g) * b.d)

RNeg(a) == IF Raised(a) THEN ZeroDiv ELSE [n |-> -a.n, d |-> a.d]

RSub(a, b) == RAdd(a, RNeg(b))

RMul(a, b) ==
    IF Raised(a) \/ Raised(b) THEN ZeroDiv
    ELSE LET g1 == GCD(Abs(a.n), b.d)
             g2 == GCD(Abs(b.n), a.d)
         IN  R((a.n \div g1) * (b.n \div g2), (a.d \div g2) * (b.d \div g1))

\* Python float division: ZeroDivisionError when the divisor is zero
RDiv(a, b) ==
    IF Raised(a) \/ Raised(b) \/ b.n = 0 THEN ZeroDiv
    ELSE RMul(a, R(b.d, b.n))

\* Comparisons; the operands are never raised values (an exception ends
\* the handler before any later comparison)
RGt(a, b) ==
    LET g == GCD(a.d, b.d) IN a.n * (b.d \div g) > b.n * (a.d \div g)

RGe(a, b) == a = b \/ RGt(a, b)

RMax(a, b) == IF RGt(b, a) THEN b ELSE a

Pow10(k) == IF k = 1 THEN 10 ELSE IF k = 2 THEN 100 ELSE 1000

\* float(f"{x:.kf}"): x rounded to k decimals, parsed back.  An exact tie
\* goes to the even neighbour, as Python does for a float that is the tie.
Fmt(x, k) ==
    IF Raised(x) THEN ZeroDiv
    ELSE LET N == x.n * Pow10(k)
             q == N \div x.d
             r == N % x.d
             m == IF 2 * r < x.d THEN q
                  ELSE IF 2 * r > x.d THEN q + 1
                  ELSE IF q % 2 = 0 THEN q ELSE q + 1
         IN  R(m, Pow10(k))

----------------------------------------------------------------------------
(* The DOM collaborators *)

Params == {"c2h2_flow", "ar_flow", "total_pressure", "c2h2_pp"}

Sliders == {"c2h2_flow_slider", "ar_flow_slider", "total_pressure_slider",
            "contaminant_pp_slider"}

\* min and max attributes of the argon-flow slider, read by update_graph
ArSliderMin == 0
ArSliderMax == 100

\* The text of the c2h2-pp-input field: a numeral, or text float() rejects
Numeral(x) == [ok |-> TRUE, v |-> x]
Unparsable == [ok |-> FALSE, v |-> Zero]

\* Number of samples of the process curve
NumSamples == 50

----------------------------------------------------------------------------
(* class CVDState *)


\* read_ui that leaves the argon flow of the previous update in place
read_ui_stale(s, c) ==
    [s EXCEPT
        !.c2h2_flow = c.c2h2_flow_slider,
        !.total_pressure = c.total_pressure_slider,
        !.contaminant_pp = c.contaminant_pp_slider,
        !.target_c2h2_pp = IF c.c2h2_pp_input.ok THEN c.c2h2_pp_input.v
                           ELSE R(25, 100),
        !.calculated_param = c.checked]

read_ui(s, c) ==
    [s EXCEPT
        !.c2h2_flow = c.c2h2_flow_slider,
        !.ar_flow = c.ar_flow_slider,
        !.total_pressure = c.total_pressure_slider,
        !.contaminant_pp = c.contaminant_pp_slider,
        !.target_c2h2_pp = IF c.c2h2_pp_input.ok THEN c.c2h2_pp_input.v
                           ELSE R(25, 100),
        !.calculated_param = c.checked]


\* disabled flags with the slider tests inverted
disabled_flags_inverted(s) ==
    [c2h2_pp_input |-> s.calculated_param # "c2h2_pp",
     c2h2_flow_slider |-> s.calculated_param # "c2h2_flow",
     ar_flow_slider |-> s.calculated_param # "ar_flow",
     total_pressure_slider |-> s.calculated_param # "total_pressure"]

\* update_ui, lines 67-74: the disabled property of the four controls
disabled_flags(s) ==
    LET is_total_pressure_calculated ==
            s.calculated_param = "total_pressure" \/ s.calculated_param = "c2h2_pp"
    IN  [c2h2_pp_input |-> s.calculated_param # "c2h2_pp",
         c2h2_flow_slider |-> s.calculated_param = "c2h2_flow",
         ar_flow_slider |-> s.calculated_param = "ar_flow",
         total_pressure_slider |-> is_total_pressure_calculated]

update_ui(s, c) ==
    LET display_c2h2_pp == IF s.calculated_param # "c2h2_pp"
                           THEN s.target_c2h2_pp ELSE s.c2h2_pp
    IN  [c EXCEPT
            !.c2h2_flow_slider = Fmt(s.c2h2_flow, 1),
            !.c2h2_flow_value = Fmt(s.c2h2_flow, 1),
            !.ar_flow_slider = Fmt(s.ar_flow, 1),
            !.ar_flow_value = Fmt(s.ar_flow, 1),
            !.total_pressure_slider = Fmt(s.total_pressure, 2),
            !.total_pressure_value = Fmt(s.total_pressure, 2),
            !.contaminant_pp_slider = Fmt(s.contaminant_pp, 3),
            !.contaminant_pp_value = Fmt(s.contaminant_pp, 3),
            !.c2h2_pp_input = Numeral(Fmt(display_c2h2_pp, 3)),
            !.disabled = disabled_flags(s)]

calculate_c2h2_pp(s) ==
    LET process_pressure == RSub(s.total_pressure, s.contaminant_pp)
        total_flow == RAdd(s.c2h2_flow, s.ar_flow)
    IN  IF RGt(total_flow, Zero) /\ RGt(process_pressure, Zero)
        THEN [s EXCEPT !.c2h2_pp =
                 RMul(RDiv(s.c2h2_flow, total_flow), process_pressure)]
        ELSE [s EXCEPT !.c2h2_pp = Zero]


\* solve_for_total_pressure that forgets the contaminant partial pressure
solve_for_total_pressure_nofloor(s) ==
    IF RGt(s.c2h2_flow, Zero) /\ RGt(s.target_c2h2_pp, Zero)
    THEN [s EXCEPT !.total_pressure =
             RMul(s.target_c2h2_pp,
                  RDiv(RAdd(s.c2h2_flow, s.ar_flow), s.c2h2_flow))]
    ELSE [s EXCEPT !.total_pressure = s.contaminant_pp]

solve_for_total_pressure(s) ==
    IF RGt(s.c2h2_flow, Zero) /\ RGt(s.target_c2h2_pp, Zero)
    THEN LET total_flow == RAdd(s.c2h2_flow, s.ar_flow)
         IN  [s EXCEPT !.total_pressure =
                 RAdd(RMul(s.target_c2h2_pp, RDiv(total_flow, s.c2h2_flow)),
                      s.contaminant_pp)]
    ELSE [s EXCEPT !.total_pressure = s.contaminant_pp]


\* solve_for_c2h2_flow whose guard admits process_pressure = target
solve_for_c2h2_flow_weak_guard(s) ==
    LET process_pressure == RSub(s.total_pressure, s.contaminant_pp)
    IN  IF RGt(s.target_c2h2_pp, Zero) /\ RGe(process_pressure, s.target_c2h2_pp)
        THEN [s EXCEPT !.c2h2_flow =
                 RDiv(RMul(s.target_c2h2_pp, s.ar_flow),
                      RSub(process_pressure, s.target_c2h2_pp))]
        ELSE [s EXCEPT !.c2h2_flow = Zero]

\* solve_for_c2h2_flow that divides by the process pressure itself
solve_for_c2h2_flow_wrong_divisor(s) ==
    LET process_pressure == RSub(s.total_pressure, s.contaminant_pp)
    IN  IF RGt(s.target_c2h2_pp, Zero) /\ RGt(process_pressure, s.target_c2h2_pp)
        THEN [s EXCEPT !.c2h2_flow =
                 RDiv(RMul(s.target_c2h2_pp, s.ar_flow), process_pressure)]
        ELSE [s EXCEPT !.c2h2_flow = Zero]

solve_for_c2h2_flow(s) ==
    LET process_pressure == RSub(s.total_pressure, s.contaminant_pp)
    IN  IF RGt(s.target_c2h2_pp, Zero) /\ RGt(process_pressure, s.target_c2h2_pp)
        THEN [s EXCEPT !.c2h2_flow =
                 RDiv(RMul(s.target_c2h2_pp, s.ar_flow),
                      RSub(process_pressure, s.target_c2h2_pp))]
        ELSE [s EXCEPT !.c2h2_flow = Zero]


\* solve_for_ar_flow without the acetylene-flow guard
solve_for_ar_flow_no_flow_guard(s) ==
    LET process_pressure == RSub(s.total_pressure, s.contaminant_pp)
    IN  IF /\ RGt(s.target_c2h2_pp, Zero)
           /\ RGt(process_pressure, s.target_c2h2_pp)
        THEN [s EXCEPT !.ar_flow =
                 RMul(s.c2h2_flow,
                      RSub(RDiv(process_pressure, s.target_c2h2_pp), One))]
        ELSE [s EXCEPT !.ar_flow = Zero]

\* solve_for_ar_flow without the process-pressure guard
solve_for_ar_flow_no_pressure_guard(s) ==
    LET process_pressure == RSub(s.total_pressure, s.contaminant_pp)
    IN  IF RGt(s.c2h2_flow, Zero) /\ RGt(s.target_c2h2_pp, Zero)
        THEN [s EXCEPT !.ar_flow =
                 RMul(s.c2h2_flow,
                      RSub(RDiv(process_pressure, s.target_c2h2_pp), One))]
        ELSE [s EXCEPT !.ar_flow = Zero]

solve_for_ar_flow(s) ==
    LET process_pressure == RSub(s.total_pressure, s.contaminant_pp)
    IN  IF /\ RGt(s.c2h2_flow, Zero)
           /\ RGt(s.target_c2h2_pp, Zero)
           /\ RGt(process_pressure, s.target_c2h2_pp)
        THEN [s EXCEPT !.ar_flow =
                 RMul(s.c2h2_flow,
                      RSub(RDiv(process_pressure, s.target_c2h2_pp), One))]
        ELSE [s EXCEPT !.ar_flow = Zero]


\* dispatch without the alias: 'c2h2_pp' selects no solver
dispatch_no_alias(s) ==
    IF s.calculated_param = "total_pressure" THEN solve_for_total_pressure(s)
    ELSE IF s.calculated_param = "c2h2_flow" THEN solve_for_c2h2_flow(s)
    ELSE IF s.calculated_param = "ar_flow" THEN solve_for_ar_flow(s)
    ELSE s

\* update_simulation, lines 122-127: the solver chosen by calculated_param
dispatch(s) ==
    IF s.calculated_param = "total_pressure" \/ s.calculated_param = "c2h2_pp"
    THEN solve_for_total_pressure(s)
    ELSE IF s.calculated_param = "c2h2_flow" THEN solve_for_c2h2_flow(s)
    ELSE IF s.calculated_param = "ar_flow" THEN solve_for_ar_flow(s)
    ELSE s


\* curve sample that forgets the contaminant partial pressure
curve_pressure_nofloor(s, ar_val) ==
    IF RGt(s.c2h2_flow, Zero) /\ RGt(s.target_c2h2_pp, Zero)
    THEN RMul(s.target_c2h2_pp,
              RDiv(RAdd(s.c2h2_flow, ar_val), s.c2h2_flow))
    ELSE s.contaminant_pp

\* update_graph, lines 146-150: one sample of the process curve
curve_pressure(s, ar_val) ==
    IF RGt(s.c2h2_flow, Zero) /\ RGt(s.target_c2h2_pp, Zero)
    THEN RAdd(RMul(s.target_c2h2_pp,
                   RDiv(RAdd(s.c2h2_flow, ar_val), s.c2h2_flow)),
              s.contaminant_pp)
    ELSE s.contaminant_pp

\* np.linspace(start, stop, num)[i - 1]
linspace(start, stop, num, i) ==
    RAdd(start, RMul(R(i - 1, 1), RDiv(RSub(stop, start), R(num - 1, 1))))

update_graph(s, c) ==
    LET ar_min == c.ar_flow_min
        ar_max == c.ar_flow_max
        ar_range == [i \in 1..NumSamples |->
                        linspace(RMax(ar_min, One), ar_max, NumSamples, i)]
    IN  [x |-> ar_range,
         y |-> [i \in 1..NumSamples |-> curve_pressure(s, ar_range[i])],
         title |-> Fmt(s.target_c2h2_pp, 3),
         marker |-> <<s.ar_flow, s.total_pressure>>]

\* update_simulation, lines 117-130: the new fields of the object
update_state(s, c, active_slider_id) ==
    calculate_c2h2_pp(dispatch(read_ui(
        [s EXCEPT !.active_slider_id = active_slider_id], c)))

----------------------------------------------------------------------------
(* The page: construction, the listeners and the events they serve *)

FlowValues == {R(5 * i, 1) : i \in 0..MaxFlowIdx}
PressureValues == {R(i, 2) : i \in 0..MaxPressureIdx}
ContaminantValues == {Zero, R(1, 4)}
TargetTexts == {Numeral(R(i, 4)) : i \in -1..MaxTargetIdx} \cup {Unparsable}

SliderValues(name) ==
    IF name = "total_pressure_slider" THEN PressureValues
    ELSE IF name = "contaminant_pp_slider" THEN ContaminantValues
    ELSE FlowValues

\* __init__, lines 26-29, before read_ui has assigned the other fields
Constructed ==
    [c2h2_flow |-> Zero, ar_flow |-> Zero, total_pressure |-> Zero,
     contaminant_pp |-> Zero, target_c2h2_pp |-> Zero,
     c2h2_pp |-> R(250, 1000), calculated_param |-> "c2h2_pp",
     active_slider_id |-> "None"]

NoPlot == [x |-> <<>>, y |-> <<>>, title |-> Zero, marker |-> <<Zero, Zero>>]

\* States an earlier update may have left, for the second run
StaleStates ==
    {[c2h2_flow |-> R(7, 1), ar_flow |-> R(3, 1), total_pressure |-> R(9, 1),
      contaminant_pp |-> R(2, 1), target_c2h2_pp |-> R(1, 8),
      c2h2_pp |-> R(4, 1), calculated_param |-> "ar_flow",
      active_slider_id |-> "ar_flow_slider"],
     [c2h2_flow |-> Zero, ar_flow |-> R(1, 2), total_pressure |-> Zero,
      contaminant_pp |-> R(1, 1000), target_c2h2_pp |-> R(3, 1),
      c2h2_pp |-> Zero, calculated_param |-> "c2h2_flow",
      active_slider_id |-> "None"]}

Quantities == {"c2h2_flow", "ar_flow", "total_pressure", "contaminant_pp",
               "target_c2h2_pp", "c2h2_pp"}

AnyRaised(s) == \E q \in Quantities : Raised(s[q])

Init ==
    /\ \E f \in FlowValues, a \in FlowValues, p \in PressureValues,
          k \in ContaminantValues, t \in TargetTexts, m \in Params :
          ctl = [c2h2_flow_slider |-> f, c2h2_flow_value |-> f,
                 ar_flow_slider |-> a, ar_flow_value |-> a,
                 total_pressure_slider |-> p, total_pressure_value |-> p,
                 contaminant_pp_slider |-> k, contaminant_pp_value |-> k,
                 c2h2_pp_input |-> t, checked |-> m,
                 ar_flow_min |-> R(ArSliderMin, 1),
                 ar_flow_max |-> R(ArSliderMax, 1),
                 disabled |-> [c2h2_pp_input |-> FALSE,
                               c2h2_flow_slider |-> FALSE,
                               ar_flow_slider |-> FALSE,
                               total_pressure_slider |-> FALSE]]
    /\ st = read_ui(Constructed, ctl)
    /\ plot = NoPlot
    /\ pc = "constructed"
    /\ event = "none"
    /\ rd = st
    /\ sh = st
    /\ steps = 0

\* update_simulation(active_slider_id) run to completion on the controls c
update_simulation(c, active_slider_id, ev) ==
    /\ st' = update_state(st, c, active_slider_id)
    /\ rd' = read_ui([st EXCEPT !.active_slider_id = active_slider_id], c)
    /\ IF AnyRaised(st')
       THEN ctl' = c /\ plot' = plot
       ELSE /\ ctl' = update_ui(st', c)
            /\ plot' = update_graph(st', ctl')
    /\ \E o \in StaleStates : sh' = update_state(o, c, active_slider_id)
    /\ pc' = "ready"
    /\ event' = ev

\* line 192: the first update, after setup_listeners
InitialUpdate ==
    /\ pc = "constructed"
    /\ update_simulation(ctl, "None", "load")
    /\ steps' = steps

\* line 182: the user moves an enabled slider to another value
SliderInput(name, v) ==
    /\ pc = "ready"
    /\ steps < MaxEvents
    /\ steps' = steps + 1
    /\ IF name = "contaminant_pp_slider" THEN TRUE ELSE ~ctl.disabled[name]
    /\ v # ctl[name]
    /\ update_simulation([ctl EXCEPT ![name] = v], name, "slider")

\* line 184: the user commits another text in the enabled target field
TargetChange(t) ==
    /\ pc = "ready"
    /\ steps < MaxEvents
    /\ steps' = steps + 1
    /\ ~ctl.disabled.c2h2_pp_input
    /\ t # ctl.c2h2_pp_input
    /\ update_simulation([ctl EXCEPT !.c2h2_pp_input = t], "None", "text")

\* lines 186-188: the user checks another radio button
RadioChange(m) ==
    /\ pc = "ready"
    /\ steps < MaxEvents
    /\ steps' = steps + 1
    /\ m # ctl.checked
    /\ update_simulation([ctl EXCEPT !.checked = m], "None", "radio")

\* update_simulation() called again with the controls as they are
Recompute ==
    /\ pc = "ready"
    /\ update_simulation(ctl, "None", "call")
    /\ steps' = steps

Next ==
    \/ InitialUpdate
    \/ \E name \in Sliders : \E v \in SliderValues(name) : SliderInput(name, v)
    \/ \E t \in TargetTexts : TargetChange(t)
    \/ \E m \in Params : RadioChange(m)
    \/ Recompute

Spec == Init /\ [][Next]_vars

----------------------------------------------------------------------------
(* The calculation engine on its own: each function applied to arbitrary   *)
(* numeric fields, zero and negative values included                       *)

SolverFlows == {R(i, 1) : i \in -1..MaxSolverIdx}
SolverPressures == {R(i, 4) : i \in -1..MaxSolverIdx}

SolverCtl ==
    [c2h2_flow_slider |-> Zero, c2h2_flow_value |-> Zero,
     ar_flow_slider |-> Zero, ar_flow_value |-> Zero,
     total_pressure_slider |-> Zero, total_pressure_value |-> Zero,
     contaminant_pp_slider |-> Zero, contaminant_pp_value |-> Zero,
     c2h2_pp_input |-> Numeral(Zero), checked |-> "c2h2_pp",
     ar_flow_min |-> R(ArSliderMin, 1), ar_flow_max |-> R(ArSliderMax, 1),
     disabled |-> [c2h2_pp_input |-> FALSE, c2h2_flow_slider |-> FALSE,
                   ar_flow_slider |-> FALSE, total_pressure_slider |-> FALSE]]

InitSolver ==
    /\ \E f \in SolverFlows, a \in SolverFlows, p \in SolverPressures,
          k \in SolverPressures, t \in SolverPressures :
          st = [Constructed EXCEPT
                   !.c2h2_flow = f, !.ar_flow = a, !.total_pressure = p,
                   !.contaminant_pp = k, !.target_c2h2_pp = t]
    /\ ctl = SolverCtl
    /\ plot = NoPlot
    /\ pc = "in"
    /\ event = "none"
    /\ rd = st
    /\ sh = st
    /\ steps = 0

Apply(op, result) ==
    /\ pc = "in"
    /\ st' = result
    /\ rd' = st
    /\ event' = op
    /\ pc' = "solved"
    /\ UNCHANGED <<ctl, plot, sh, steps>>

CallCalculate == Apply("calculate_c2h2_pp", calculate_c2h2_pp(st))

CallSolveTotalPressure ==
    Apply("solve_for_total_pressure", solve_for_total_pressure(st))

CallSolveC2H2Flow == Apply("solve_for_c2h2_flow", solve_for_c2h2_flow(st))

CallSolveArFlow == Apply("solve_for_ar_flow", solve_for_ar_flow(st))

\* update_simulation, line 130: the recomputation that follows a solver
Recalculate ==
    /\ pc = "solved"
    /\ event # "calculate_c2h2_pp"
    /\ ~AnyRaised(st)
    /\ st' = calculate_c2h2_pp(st)
    /\ pc' = "out"
    /\ UNCHANGED <<ctl, plot, event, rd, sh, steps>>

\* calculate_c2h2_pp, then solve_for_total_pressure for the value it gave
RoundTrip ==
    /\ pc = "in"
    /\ LET s1 == calculate_c2h2_pp(st)
       IN  st' = solve_for_total_pressure(
                     [s1 EXCEPT !.target_c2h2_pp = s1.c2h2_pp])
    /\ rd' = st
    /\ event' = "round_trip"
    /\ pc' = "out"
    /\ UNCHANGED <<ctl, plot, sh, steps>>

\* update_graph on the fields as they are
CallGraph ==
    /\ pc = "in"
    /\ plot' = update_graph(st, ctl)
    /\ rd' = st
    /\ event' = "update_graph"
    /\ pc' = "out"
    /\ UNCHANGED <<st, ctl, sh, steps>>

NextSolver ==
    \/ CallCalculate
    \/ CallSolveTotalPressure
    \/ CallSolveC2H2Flow
    \/ CallSolveArFlow
    \/ Recalculate
    \/ RoundTrip
    \/ CallGraph

SpecSolver == InitSolver /\ [][NextSolver]_vars

----------------------------------------------------------------------------
(* Properties *)

RLt(a, b) == RGt(b, a)
RLe(a, b) == ~RGt(a, b)
NonNeg(x) == RGe(x, Zero)
Pos(x) == RGt(x, Zero)

ProcessPressure(s) == RSub(s.total_pressure, s.contaminant_pp)

\* The fields the claims compare; active_slider_id is the caller's argument
StateOf(s) ==
    <<s.c2h2_flow, s.ar_flow, s.total_pressure, s.contaminant_pp,
      s.target_c2h2_pp, s.c2h2_pp, s.calculated_param>>

ControlValues(c) ==
    <<c.c2h2_flow_slider, c.ar_flow_slider, c.total_pressure_slider,
      c.contaminant_pp_slider, c.c2h2_pp_input, c.checked, c.disabled>>

TotalPressureModes == {"total_pressure", "c2h2_pp"}

\* C1: one update overwrites exactly one of c2h2_flow, ar_flow and
\* total_pressure with its solver's result, chosen by calculated_param
\* ('total_pressure' and 'c2h2_pp' both write total_pressure); the other two,
\* contaminant_pp and target_c2h2_pp keep the values read from the controls.
C1_ModeDispatchFrame ==
    pc = "ready" =>
        /\ st.contaminant_pp = rd.contaminant_pp
        /\ st.target_c2h2_pp = rd.target_c2h2_pp
        /\ st.calculated_param \in TotalPressureModes =>
              /\ st.total_pressure = solve_for_total_pressure(rd).total_pressure
              /\ st.c2h2_flow = rd.c2h2_flow
              /\ st.ar_flow = rd.ar_flow
        /\ st.calculated_param = "c2h2_flow" =>
              /\ st.c2h2_flow = solve_for_c2h2_flow(rd).c2h2_flow
              /\ st.ar_flow = rd.ar_flow
              /\ st.total_pressure = rd.total_pressure
        /\ st.calculated_param = "ar_flow" =>
              /\ st.ar_flow = solve_for_ar_flow(rd).ar_flow
              /\ st.c2h2_flow = rd.c2h2_flow
              /\ st.total_pressure = rd.total_pressure

\* C1 witness: in mode 'c2h2_pp' an update has replaced the total pressure
\* it read by another value and left both flows as read
C1_Witness ==
    /\ pc = "ready"
    /\ st.calculated_param = "c2h2_pp"
    /\ st.total_pressure # rd.total_pressure
    /\ Pos(st.c2h2_flow)
    /\ Pos(st.ar_flow)

\* C2 (as claimed): update_simulation called again with no user event in
\* between leaves the state and the control values exactly as the first call
\* left them, in every mode and for every initial control reading.
C2_RepeatedUpdateNoDrift ==
    [][(pc = "ready" /\ event' = "call") =>
          (StateOf(st') = StateOf(st) /\ ControlValues(ctl') = ControlValues(ctl))]_vars

\* C3 (as claimed): in modes 'c2h2_flow' and 'ar_flow', for flows >= 0,
\* target > 0 and process pressure > target (and c2h2_flow > 0 in mode
\* 'ar_flow'), the recomputed c2h2_pp equals the target.
C3_FlowRoundTripAsClaimed ==
    (/\ pc = "ready"
     /\ st.calculated_param \in {"c2h2_flow", "ar_flow"}
     /\ NonNeg(rd.c2h2_flow) /\ NonNeg(rd.ar_flow)
     /\ Pos(rd.target_c2h2_pp)
     /\ RGt(ProcessPressure(rd), rd.target_c2h2_pp)
     /\ st.calculated_param = "ar_flow" => Pos(rd.c2h2_flow))
    => st.c2h2_pp = rd.target_c2h2_pp

\* C3 (amended): the same, with the argon flow read in mode 'c2h2_flow'
\* strictly positive: then the recomputed c2h2_pp equals the target.
C3_FlowRoundTrip ==
    (/\ pc = "ready"
     /\ st.calculated_param \in {"c2h2_flow", "ar_flow"}
     /\ NonNeg(rd.c2h2_flow) /\ NonNeg(rd.ar_flow)
     /\ Pos(rd.target_c2h2_pp)
     /\ RGt(ProcessPressure(rd), rd.target_c2h2_pp)
     /\ st.calculated_param = "ar_flow" => Pos(rd.c2h2_flow)
     /\ st.calculated_param = "c2h2_flow" => Pos(rd.ar_flow))
    => st.c2h2_pp = rd.target_c2h2_pp

\* C3 witness: mode 'c2h2_flow' has solved a flow that is no multiple of the
\* display step, and the recomputed partial pressure is the target
C3_Witness ==
    /\ pc = "ready"
    /\ st.calculated_param = "c2h2_flow"
    /\ Pos(rd.ar_flow)
    /\ Pos(rd.target_c2h2_pp)
    /\ RGt(ProcessPressure(rd), rd.target_c2h2_pp)
    /\ st.c2h2_flow # Fmt(st.c2h2_flow, 1)
    /\ st.c2h2_pp = rd.target_c2h2_pp

\* C4: for c2h2_flow > 0, ar_flow >= 0 and total_pressure > contaminant_pp
\* >= 0, solving for the total pressure with the target set to the value of
\* calculate_c2h2_pp returns the original total pressure.
C4_TotalPressureRoundTrip ==
    (/\ event = "round_trip"
     /\ Pos(rd.c2h2_flow) /\ NonNeg(rd.ar_flow)
     /\ RGt(rd.total_pressure, rd.contaminant_pp)
     /\ NonNeg(rd.contaminant_pp))
    => st.total_pressure = rd.total_pressure

\* C4 witness: a round trip through a mixture with argon and a contaminant
C4_Witness ==
    /\ event = "round_trip"
    /\ Pos(rd.c2h2_flow) /\ Pos(rd.ar_flow)
    /\ Pos(rd.contaminant_pp)
    /\ RGt(rd.total_pressure, rd.contaminant_pp)
    /\ st.total_pressure = rd.total_pressure
    /\ st.target_c2h2_pp # rd.target_c2h2_pp

\* C5: the state an update produces depends on the control values it read
\* only: a run started from any other previous state, reading the same
\* controls, ends in the same state.
C5_StateFromControlsOnly ==
    pc = "ready" => StateOf(sh) = StateOf(st)

\* C5 witness: after a user event, the other run started from fields that
\* all differ from the ones this run started from, and both agree
C5_Witness ==
    /\ pc = "ready"
    /\ event = "slider"
    /\ StateOf(sh) = StateOf(st)
    /\ Pos(st.c2h2_flow) /\ Pos(st.ar_flow) /\ Pos(st.c2h2_pp)
    /\ \A o \in StaleStates :
          /\ o.ar_flow # st.ar_flow
          /\ o.c2h2_flow # st.c2h2_flow
          /\ o.total_pressure # st.total_pressure

ControlOf(m) ==
    IF m = "c2h2_pp" THEN "c2h2_pp_input"
    ELSE IF m = "c2h2_flow" THEN "c2h2_flow_slider"
    ELSE IF m = "ar_flow" THEN "ar_flow_slider"
    ELSE "total_pressure_slider"

ModeControls == {"c2h2_flow_slider", "ar_flow_slider", "total_pressure_slider",
                 "c2h2_pp_input"}

\* C6 (as claimed): after every update the three controls not selected as
\* calculated are disabled, and the total-pressure control is disabled
\* whenever calculated_param is 'total_pressure' or 'c2h2_pp'.
C6_DisabledAsClaimed ==
    pc = "ready" =>
        /\ \A k \in ModeControls \ {ControlOf(st.calculated_param)} :
              ctl.disabled[k]
        /\ st.calculated_param \in TotalPressureModes =>
              ctl.disabled.total_pressure_slider

\* C6 (amended): after every update a slider is disabled exactly when it is
\* the control of the calculated quantity (the total-pressure slider for
\* both 'total_pressure' and 'c2h2_pp'), and the c2h2_pp input is disabled
\* exactly when calculated_param is not 'c2h2_pp'.
C6_Disabled ==
    pc = "ready" =>
        /\ ctl.disabled.c2h2_flow_slider <=> st.calculated_param = "c2h2_flow"
        /\ ctl.disabled.ar_flow_slider <=> st.calculated_param = "ar_flow"
        /\ ctl.disabled.total_pressure_slider
              <=> st.calculated_param \in TotalPressureModes
        /\ ctl.disabled.c2h2_pp_input <=> st.calculated_param # "c2h2_pp"

\* C6 witness: mode 'c2h2_pp' after a radio change: only the total-pressure
\* slider is disabled
C6_Witness ==
    /\ pc = "ready"
    /\ event = "radio"
    /\ st.calculated_param = "c2h2_pp"
    /\ ctl.disabled.total_pressure_slider
    /\ ~ctl.disabled.c2h2_flow_slider
    /\ ~ctl.disabled.ar_flow_slider
    /\ ~ctl.disabled.c2h2_pp_input

\* C7 (as claimed): after every update all six quantities are >= 0, for any
\* slider readings >= 0 and any content of the target text field.
C7_NonNegativeAsClaimed ==
    pc = "ready" => \A q \in Quantities : NonNeg(st[q])

\* C7 (amended): after every update c2h2_flow, ar_flow, total_pressure,
\* contaminant_pp and c2h2_pp are >= 0 for any slider readings >= 0 and any
\* content of the target text field; target_c2h2_pp is the number read from
\* that field and is >= 0 unless the field holds a negative number.
C7_NonNegative ==
    pc = "ready" =>
        /\ \A q \in Quantities \ {"target_c2h2_pp"} : NonNeg(st[q])
        /\ NonNeg(rd.target_c2h2_pp) => NonNeg(st.target_c2h2_pp)

\* C7 witness: an update that read a total pressure below the contaminant
\* partial pressure, with a positive target and both flows positive
C7_Witness ==
    /\ pc = "ready"
    /\ RLt(rd.total_pressure, rd.contaminant_pp)
    /\ Pos(rd.target_c2h2_pp)
    /\ Pos(rd.c2h2_flow) /\ Pos(rd.ar_flow)
    /\ st.calculated_param = "ar_flow"

PlotRaised == \E i \in DOMAIN plot.y : Raised(plot.y[i])

\* C8: for all numeric field values, zero and negative ones included,
\* calculate_c2h2_pp, the three solvers and every sample of the curve loop
\* divide by a non-zero divisor only and end having assigned a value.
C8_NoDivisionByZero ==
    /\ ~AnyRaised(st)
    /\ ~PlotRaised
    /\ event = "update_graph" => Len(plot.y) = NumSamples

\* C8 witness: solve_for_c2h2_flow has run where the process pressure equals
\* a positive target, the zero of its divisor
C8_Witness ==
    /\ pc = "solved"
    /\ event = "solve_for_c2h2_flow"
    /\ Pos(rd.target_c2h2_pp)
    /\ ProcessPressure(rd) = rd.target_c2h2_pp
    /\ rd.ar_flow # Zero

InFallback ==
    \/ /\ event = "solve_for_c2h2_flow"
       /\ RLe(ProcessPressure(rd), rd.target_c2h2_pp)
    \/ /\ event = "solve_for_ar_flow"
       /\ \/ RLe(ProcessPressure(rd), rd.target_c2h2_pp)
          \/ RLe(rd.c2h2_flow, Zero)
    \/ /\ event = "solve_for_total_pressure"
       /\ \/ RLe(rd.c2h2_flow, Zero)
          \/ RLe(rd.target_c2h2_pp, Zero)

\* C9: outside its domain each solver assigns its fallback: c2h2_flow = 0
\* and ar_flow = 0 when process pressure <= target, ar_flow = 0 when
\* c2h2_flow <= 0, total_pressure = contaminant_pp when c2h2_flow <= 0 or
\* target <= 0; and where c2h2_flow is 0 afterwards the recomputed c2h2_pp
\* is 0.
C9_Fallbacks ==
    (pc \in {"solved", "out"} /\ InFallback) =>
        /\ event = "solve_for_c2h2_flow" => st.c2h2_flow = Zero
        /\ event = "solve_for_ar_flow" => st.ar_flow = Zero
        /\ event = "solve_for_total_pressure"
              => st.total_pressure = rd.contaminant_pp
        /\ (pc = "out" /\ st.c2h2_flow = Zero) => st.c2h2_pp = Zero

\* C9 witness: solve_for_ar_flow fell back because of a negative acetylene
\* flow, though the process pressure exceeds a positive target
C9_Witness ==
    /\ pc = "out"
    /\ event = "solve_for_ar_flow"
    /\ RLt(rd.c2h2_flow, Zero)
    /\ Pos(rd.target_c2h2_pp)
    /\ RGt(ProcessPressure(rd), rd.target_c2h2_pp)
    /\ rd.ar_flow # Zero
    /\ st.ar_flow = Zero

OnCurve == plot.marker[2] = curve_pressure(st, plot.marker[1])

\* C10 (as claimed): after any update the highlighted point's total pressure
\* is the curve formula at its argon flow: in modes 'total_pressure' and
\* 'c2h2_pp' always; in modes 'c2h2_flow' and 'ar_flow' when target > 0 and
\* process pressure > target (and c2h2_flow > 0 in mode 'ar_flow'), for all
\* flows >= 0.
C10_PointOnCurveAsClaimed ==
    (/\ pc = "ready"
     /\ \/ st.calculated_param \in TotalPressureModes
        \/ /\ Pos(rd.target_c2h2_pp)
           /\ RGt(ProcessPressure(rd), rd.target_c2h2_pp)
           /\ st.calculated_param = "ar_flow" => Pos(rd.c2h2_flow))
    => OnCurve

\* C10 (amended): the same, with the argon flow read in mode 'c2h2_flow'
\* strictly positive.
C10_PointOnCurve ==
    (/\ pc = "ready"
     /\ \/ st.calculated_param \in TotalPressureModes
        \/ /\ Pos(rd.target_c2h2_pp)
           /\ RGt(ProcessPressure(rd), rd.target_c2h2_pp)
           /\ st.calculated_param = "ar_flow" => Pos(rd.c2h2_flow)
           /\ st.calculated_param = "c2h2_flow" => Pos(rd.ar_flow))
    => OnCurve

\* C10 witness: mode 'ar_flow' has solved a positive argon flow under a
\* positive contaminant pressure and the plotted point is on the curve
C10_Witness ==
    /\ pc = "ready"
    /\ st.calculated_param = "ar_flow"
    /\ Pos(st.ar_flow)
    /\ Pos(st.contaminant_pp)
    /\ plot.marker = <<st.ar_flow, st.total_pressure>>
    /\ OnCurve

====
